---- MODULE Spec2Model ----
(***************************************************************************)
(* Model of native_development/i128_atomic.c, the Compiler Atomic-Library  *)
(* backend (the #else branch): eight exported functions, each one call of  *)
(* a generic atomic built-in on a 16-byte cell { low, high }.              *)
(*                                                                         *)
(* Memory is modelled with per-cell modification orders and per-thread     *)
(* views, so that the memory-order argument of each built-in decides what  *)
(* a call may observe:                                                     *)
(*   - mem[c] is the modification order of cell c, a sequence of messages; *)
(*     a write appends one message, whole (both words at once);            *)
(*   - view[t][c] is the newest message of c that thread t has observed;   *)
(*     a load may return any message of c that is not older than that;     *)
(*   - a release write publishes the writer's view in its message, an      *)
(*     acquire read joins the view of the message it reads;                *)
(*   - scView is the view published by sequentially-consistent writes; a   *)
(*     sequentially-consistent access joins it before it acts.             *)
(* A call is one atomic step: calls never overlap in a behaviour, so the   *)
(* order of the steps is the real-time order of the calls.                 *)
(***************************************************************************)
EXTENDS Integers, Sequences, FiniteSets, TLC

VARIABLES
    mem,       \* mem[c]: the modification order of cell c, oldest message first
    view,      \* view[t][c]: the newest message of c thread t has observed
    scView,    \* the view published by sequentially-consistent writes
    expected,  \* expected[t]: the caller's `expected` buffer after its last CAS
    out,       \* out[t]: the caller's `out` buffer after its last load
    ret,       \* ret[t]: what the caller's last CAS returned
    pc,        \* pc[t]: the calls thread t has made (its place in its script)
    caller,    \* the values the caller of a scripted scenario chose
    last       \* the call made by the last step, with what it read

vars == <<mem, view, scView, expected, out, ret, pc, caller, last>>

(* ---- bounds ---- *)
\* calls made in all by the free-running callers
MaxCalls == 3
\* width of a word of the model, standing for the 64 bits of uint64_t
WordBits == 2
\* calls made in all by the free-running callers of two cells
MaxFrameCalls == 2
\* calls the contending thread makes while another call is pending
MaxContention == 2
\* increments each thread performs on the shared counter (K)
MaxIncrements == 2
\* attempts counted by the retry loop before the counter saturates
MaxAttempts == 4

Threads == {"t1", "t2"}
Cells == {"X", "Y"}
\* the cell the free-running callers share
FreeCells == {"X"}

WordMax == 2 ^ WordBits - 1
Words == 0 .. WordMax

\* typedef struct { uint64_t low; uint64_t high; } atomic128_t;
\* a value is <<low, high>>
atomic128_t == Words \X Words

Zero128 == <<0, 0>>
Ones128 == <<WordMax, WordMax>>
LowMax128 == <<WordMax, 0>>
HighMax128 == <<0, WordMax>>

\* the boundary values of section 8 (Round-trip)
Boundary == {Zero128, Ones128, LowMax128, HighMax128}

\* the values the free-running callers pass: they differ in both words, so
\* a mix of the words of two of them is a value nobody wrote
CallerValues == {Zero128, Ones128}

(* ---- memory orders of the built-ins ---- *)
ATOMIC_RELAXED == "relaxed"
ATOMIC_ACQUIRE == "acquire"
ATOMIC_RELEASE == "release"
ATOMIC_SEQ_CST == "seq_cst"

(* ---- views ---- *)
Max(a, b) == IF a >= b THEN a ELSE b
Min(a, b) == IF a <= b THEN a ELSE b

BottomView == [c \in Cells |-> 1]
Join(v, w) == [c \in Cells |-> Max(v[c], w[c])]

Latest(c) == Len(mem[c])
CellValue(c) == mem[c][Latest(c)].val

NoCall == [op |-> "none"]

\* the oldest message of c a load of thread t with this order may return
Floor(t, c, order) ==
    IF order = ATOMIC_SEQ_CST THEN Max(view[t][c], scView[c]) ELSE view[t][c]

\* thread t's view after it read message i of cell c with this order
ViewAfterRead(t, c, i, order) ==
    LET seen == [view[t] EXCEPT ![c] = Max(@, i)]
        acq == IF order \in {ATOMIC_ACQUIRE, ATOMIC_SEQ_CST}
               THEN Join(seen, mem[c][i].view) ELSE seen
    IN  IF order = ATOMIC_SEQ_CST THEN Join(acq, scView) ELSE acq

\* thread t's view after it wrote message n of cell c with this order,
\* from the view `from` it had when it wrote
ViewAfterWrite(from, c, n, order) ==
    LET own == [from EXCEPT ![c] = n]
    IN  IF order = ATOMIC_SEQ_CST THEN Join(own, scView) ELSE own

\* the view a write of message n of cell c publishes in the message
MsgView(tv, c, n, order) ==
    IF order \in {ATOMIC_RELEASE, ATOMIC_SEQ_CST}
    THEN tv
    ELSE [BottomView EXCEPT ![c] = n]

(* ---- the generic built-ins ---- *)

\* __atomic_load(addr, out, order)
atomic_load(t, c, order, fn) ==
    \E i \in Floor(t, c, order) .. Latest(c) :
        /\ out' = [out EXCEPT ![t] = mem[c][i].val]
        /\ view' = [view EXCEPT ![t] = ViewAfterRead(t, c, i, order)]
        /\ last' = [op |-> fn, kind |-> "load", thread |-> t, cell |-> c,
                    order |-> order, read |-> i, seen |-> view[t][c],
                    prelen |-> Latest(c)]
        /\ UNCHANGED <<mem, scView, expected, ret>>

\* __atomic_store(addr, value, order)
atomic_store(t, c, value, order, fn) ==
    LET n == Latest(c) + 1
        tv == ViewAfterWrite(view[t], c, n, order)
    IN  /\ mem' = [mem EXCEPT ![c] =
                     Append(@, [val |-> value, order |-> order,
                                view |-> MsgView(tv, c, n, order)])]
        /\ view' = [view EXCEPT ![t] = tv]
        /\ scView' = IF order = ATOMIC_SEQ_CST THEN Join(scView, tv) ELSE scView
        /\ last' = [op |-> fn, kind |-> "store", thread |-> t, cell |-> c,
                    order |-> order, value |-> value, prelen |-> Latest(c)]
        /\ UNCHANGED <<expected, out, ret>>

\* __atomic_compare_exchange(addr, expected, desired, weak, success, failure)
\* The caller's buffer holds e on entry. The exchange happens only on the
\* newest message of the cell; a failed comparison is a load with the
\* failure order; the weak form may also fail on a value equal to e.
atomic_compare_exchange(t, c, e, d, weak, success, failure, fn) ==
    \/ \* success: read the newest message, equal to e, and write d after it
       /\ CellValue(c) = e
       /\ LET i == Latest(c)
              n == i + 1
              rd == ViewAfterRead(t, c, i, success)
              tv == ViewAfterWrite(rd, c, n, success)
              \* the write continues the release sequence of the one it read
              mv == Join(MsgView(tv, c, n, success), mem[c][i].view)
          IN  /\ mem' = [mem EXCEPT ![c] =
                           Append(@, [val |-> d, order |-> success,
                                      view |-> [mv EXCEPT ![c] = n]])]
              /\ view' = [view EXCEPT ![t] = tv]
              /\ scView' = IF success = ATOMIC_SEQ_CST
                           THEN Join(scView, tv) ELSE scView
              /\ expected' = [expected EXCEPT ![t] = e]
              /\ ret' = [ret EXCEPT ![t] = TRUE]
              /\ last' = [op |-> fn, kind |-> "cas", thread |-> t, cell |-> c,
                          order |-> success, failure |-> failure, read |-> i,
                          seen |-> view[t][c], prelen |-> i,
                          exp |-> e, des |-> d, ok |-> TRUE]
       /\ UNCHANGED out
    \/ \* failure: the value read differs from e, or the weak form gave up
       \E i \in Floor(t, c, failure) .. Latest(c) :
           /\ mem[c][i].val # e \/ weak
           /\ expected' = [expected EXCEPT ![t] = mem[c][i].val]
           /\ ret' = [ret EXCEPT ![t] = FALSE]
           /\ view' = [view EXCEPT ![t] = ViewAfterRead(t, c, i, failure)]
           /\ last' = [op |-> fn, kind |-> "cas", thread |-> t, cell |-> c,
                       order |-> success, failure |-> failure, read |-> i,
                       seen |-> view[t][c], prelen |-> Latest(c),
                       exp |-> e, des |-> d, ok |-> FALSE]
           /\ UNCHANGED <<mem, scView, out>>

\* _InterlockedCompareExchange128(Destination, ExchangeHigh, ExchangeLow,
\*                                ComparandResult)
\* Destination and ComparandResult are arrays of two 64-bit words, word 0
\* the low and word 1 the high one; the exchange value is made of the two
\* scalar arguments. It is a strong exchange with a full barrier, it
\* overwrites ComparandResult with the value it found, and it returns 1
\* exactly when it exchanged.
InterlockedCompareExchange128(t, c, ExchangeHigh, ExchangeLow, ComparandResult) ==
    atomic_compare_exchange(t, c, <<ComparandResult[1], ComparandResult[2]>>,
                            <<ExchangeLow, ExchangeHigh>>, FALSE,
                            ATOMIC_SEQ_CST, ATOMIC_SEQ_CST, "compareAndSet")

(* ---- faulty variants of the exported functions, used to show that ---- *)
(* ---- each property below is decided by the function it is about   ---- *)

\* a load that copies the two words one after the other
getOpaque_twoWordLoads(t, c) ==
    \E i \in Floor(t, c, ATOMIC_RELAXED) .. Latest(c),
       j \in Floor(t, c, ATOMIC_RELAXED) .. Latest(c) :
        /\ out' = [out EXCEPT ![t] = <<mem[c][i].val[1], mem[c][j].val[2]>>]
        /\ view' = [view EXCEPT ![t] = ViewAfterRead(t, c, Max(i, j), ATOMIC_RELAXED)]
        /\ last' = [op |-> "getOpaque", kind |-> "load", thread |-> t, cell |-> c,
                    order |-> ATOMIC_RELAXED, read |-> Max(i, j), seen |-> view[t][c],
                    prelen |-> Latest(c)]
        /\ UNCHANGED <<mem, scView, expected, ret>>

\* getAcquire passing the release order
getAcquire_release(t, c) == atomic_load(t, c, ATOMIC_RELEASE, "getAcquire")

\* getVolatile passing the acquire order
getVolatile_acquire(t, c) == atomic_load(t, c, ATOMIC_ACQUIRE, "getVolatile")

\* compareAndSet passing weak = true
compareAndSet_weak(t, c, e, d) ==
    atomic_compare_exchange(t, c, e, d, TRUE, ATOMIC_SEQ_CST, ATOMIC_SEQ_CST,
                            "compareAndSet")

\* compareAndSet passing the words of `desired` in the other order
compareAndSet_swapped(t, c, e, d) ==
    atomic_compare_exchange(t, c, e, <<d[2], d[1]>>, FALSE, ATOMIC_SEQ_CST,
                            ATOMIC_SEQ_CST, "compareAndSet")

\* compareAndSet that reports a mismatch without copying the value it
\* read into `expected`
compareAndSet_noWriteBack(t, c, e, d) ==
    \/ /\ compareAndSet_weak(t, c, e, d)
       /\ ret'[t]
    \/ \E i \in Floor(t, c, ATOMIC_SEQ_CST) .. Latest(c) :
           /\ mem[c][i].val # e
           /\ expected' = [expected EXCEPT ![t] = e]
           /\ ret' = [ret EXCEPT ![t] = FALSE]
           /\ view' = [view EXCEPT ![t] = ViewAfterRead(t, c, i, ATOMIC_SEQ_CST)]
           /\ last' = [op |-> "compareAndSet", kind |-> "cas", thread |-> t,
                       cell |-> c, order |-> ATOMIC_SEQ_CST,
                       failure |-> ATOMIC_SEQ_CST, read |-> i,
                       seen |-> view[t][c], prelen |-> Latest(c),
                       exp |-> e, des |-> d, ok |-> FALSE]
           /\ UNCHANGED <<mem, scView, out>>

\* weakCompareAndSetRelease that copies `desired` into `expected` when it
\* fails, instead of the value it read
weakCompareAndSetRelease_clobber(t, c, e, d) ==
    \/ /\ atomic_compare_exchange(t, c, e, d, TRUE, ATOMIC_RELEASE,
                                  ATOMIC_RELAXED, "weakCompareAndSetRelease")
       /\ ret'[t]
    \/ \E i \in Floor(t, c, ATOMIC_RELAXED) .. Latest(c) :
           /\ expected' = [expected EXCEPT ![t] = d]
           /\ ret' = [ret EXCEPT ![t] = FALSE]
           /\ view' = [view EXCEPT ![t] = ViewAfterRead(t, c, i, ATOMIC_RELAXED)]
           /\ last' = [op |-> "weakCompareAndSetRelease", kind |-> "cas",
                       thread |-> t, cell |-> c, order |-> ATOMIC_RELEASE,
                       failure |-> ATOMIC_RELAXED, read |-> i,
                       seen |-> view[t][c], prelen |-> Latest(c),
                       exp |-> e, des |-> d, ok |-> FALSE]
           /\ UNCHANGED <<mem, scView, out>>

\* setRelease passing the relaxed order
setRelease_relaxed(t, c, value) ==
    atomic_store(t, c, value, ATOMIC_RELAXED, "setRelease")

\* setVolatile passing the release order
setVolatile_release(t, c, value) ==
    atomic_store(t, c, value, ATOMIC_RELEASE, "setVolatile")

\* setVolatile passing the words of `value` in the other order
setVolatile_swapped(t, c, value) ==
    atomic_store(t, c, <<value[2], value[1]>>, ATOMIC_SEQ_CST, "setVolatile")

\* weakCompareAndSetRelease that exchanges without comparing
weakCompareAndSetRelease_exchange(t, c, e, d) ==
    LET i == Latest(c)
        n == i + 1
        tv == ViewAfterWrite(view[t], c, n, ATOMIC_RELEASE)
    IN  /\ mem' = [mem EXCEPT ![c] =
                     Append(@, [val |-> d, order |-> ATOMIC_RELEASE,
                                view |-> MsgView(tv, c, n, ATOMIC_RELEASE)])]
        /\ view' = [view EXCEPT ![t] = tv]
        /\ expected' = [expected EXCEPT ![t] = mem[c][i].val]
        /\ ret' = [ret EXCEPT ![t] = TRUE]
        /\ last' = [op |-> "weakCompareAndSetRelease", kind |-> "cas",
                    thread |-> t, cell |-> c, order |-> ATOMIC_RELEASE,
                    failure |-> ATOMIC_RELAXED, read |-> i, seen |-> view[t][c],
                    prelen |-> i, exp |-> e, des |-> d, ok |-> TRUE]
        /\ UNCHANGED <<scView, out>>

\* compareAndSet that compares and writes in two accesses: it may compare
\* with a value that is no longer the newest and still write
compareAndSet_twoAccesses(t, c, e, d) ==
    \/ compareAndSet_weak(t, c, e, d) /\ (ret'[t] \/ expected'[t] # e)
    \/ \E i \in Floor(t, c, ATOMIC_SEQ_CST) .. Latest(c) :
           /\ i < Latest(c)
           /\ mem[c][i].val = e
           /\ LET n == Latest(c) + 1
                  tv == ViewAfterWrite(view[t], c, n, ATOMIC_SEQ_CST)
              IN  /\ mem' = [mem EXCEPT ![c] =
                               Append(@, [val |-> d, order |-> ATOMIC_SEQ_CST,
                                          view |-> tv])]
                  /\ view' = [view EXCEPT ![t] = tv]
                  /\ scView' = Join(scView, tv)
           /\ expected' = [expected EXCEPT ![t] = e]
           /\ ret' = [ret EXCEPT ![t] = TRUE]
           /\ last' = [op |-> "compareAndSet", kind |-> "cas", thread |-> t,
                       cell |-> c, order |-> ATOMIC_SEQ_CST,
                       failure |-> ATOMIC_SEQ_CST, read |-> i,
                       seen |-> view[t][c], prelen |-> Latest(c),
                       exp |-> e, des |-> d, ok |-> TRUE]
           /\ UNCHANGED out

\* setOpaque copying past the end of the cell, into every cell
setOpaque_overrun(t, c, value) ==
    /\ mem' = [b \in Cells |->
                 Append(mem[b], [val |-> value, order |-> ATOMIC_RELAXED,
                                 view |-> [BottomView EXCEPT ![b] = Latest(b) + 1]])]
    /\ view' = [view EXCEPT ![t] = [b \in Cells |-> Latest(b) + 1]]
    /\ last' = [op |-> "setOpaque", kind |-> "store", thread |-> t, cell |-> c,
                order |-> ATOMIC_RELAXED, value |-> value, prelen |-> Latest(c)]
    /\ UNCHANGED <<scView, expected, out, ret>>

\* compareAndSet retrying inside, while (!cas(addr, expected, desired)) with
\* the caller's `expected` each time: it returns only once it has exchanged
compareAndSet_retryInside(t, c, e, d) ==
    /\ compareAndSet_weak(t, c, e, d)
    /\ ret'[t]

\* the native compareAndSet passing desired[0] as the high word
compareAndSet_WIN32_lowFirst(t, c, e, d) ==
    InterlockedCompareExchange128(t, c, d[1], d[2], e)

(* ---- the exported functions ---- *)

getOpaque_i128(t, c) == atomic_load(t, c, ATOMIC_RELAXED, "getOpaque")

getAcquire_i128(t, c) == atomic_load(t, c, ATOMIC_ACQUIRE, "getAcquire")

getVolatile_i128(t, c) == atomic_load(t, c, ATOMIC_SEQ_CST, "getVolatile")

compareAndSet_i128(t, c, e, d) ==
    atomic_compare_exchange(t, c, e, d, FALSE, ATOMIC_SEQ_CST, ATOMIC_SEQ_CST,
                            "compareAndSet")

weakCompareAndSetRelease_i128(t, c, e, d) ==
    atomic_compare_exchange(t, c, e, d, TRUE, ATOMIC_RELEASE, ATOMIC_RELAXED,
                            "weakCompareAndSetRelease")

\* the native double-CAS backend (#ifdef _WIN32), its only function;
\* desired[0] is d[1] here and desired[1] is d[2]
compareAndSet_i128_WIN32(t, c, e, d) ==
    InterlockedCompareExchange128(t, c, d[2], d[1], e)

setOpaque_i128(t, c, value) == atomic_store(t, c, value, ATOMIC_RELAXED, "setOpaque")

setRelease_i128(t, c, value) == atomic_store(t, c, value, ATOMIC_RELEASE, "setRelease")

setVolatile_i128(t, c, value) == atomic_store(t, c, value, ATOMIC_SEQ_CST, "setVolatile")

(* ---- the state after the caller allocated and initialised the cells ---- *)
InitCells(init) ==
    /\ mem = [c \in Cells |-> <<[val |-> init, order |-> "init", view |-> BottomView]>>]
    /\ view = [t \in Threads |-> BottomView]
    /\ scView = BottomView
    /\ expected = [t \in Threads |-> init]
    /\ out = [t \in Threads |-> init]
    /\ ret = [t \in Threads |-> FALSE]
    /\ pc = [t \in Threads |-> 0]
    /\ last = NoCall

(* ---- free-running callers: any thread calls any function ---- *)
RECURSIVE SumCalls(_)
SumCalls(S) == IF S = {} THEN 0
               ELSE LET t == CHOOSE x \in S : TRUE IN pc[t] + SumCalls(S \ {t})
Calls == SumCalls(Threads)

Called(t) == pc' = [pc EXCEPT ![t] = @ + 1] /\ UNCHANGED caller

Init == InitCells(Zero128) /\ caller = NoCall

GetOpaque == \E t \in Threads, c \in FreeCells :
    Calls < MaxCalls /\ getOpaque_i128(t, c) /\ Called(t)
GetAcquire == \E t \in Threads, c \in FreeCells :
    Calls < MaxCalls /\ getAcquire_i128(t, c) /\ Called(t)
GetVolatile == \E t \in Threads, c \in FreeCells :
    Calls < MaxCalls /\ getVolatile_i128(t, c) /\ Called(t)
CompareAndSet == \E t \in Threads, c \in FreeCells, e \in CallerValues, d \in CallerValues :
    Calls < MaxCalls /\ compareAndSet_i128(t, c, e, d) /\ Called(t)
WeakCompareAndSetRelease ==
    \E t \in Threads, c \in FreeCells, e \in CallerValues, d \in CallerValues :
        Calls < MaxCalls /\ weakCompareAndSetRelease_i128(t, c, e, d) /\ Called(t)
SetOpaque == \E t \in Threads, c \in FreeCells, v \in CallerValues :
    Calls < MaxCalls /\ setOpaque_i128(t, c, v) /\ Called(t)
SetRelease == \E t \in Threads, c \in FreeCells, v \in CallerValues :
    Calls < MaxCalls /\ setRelease_i128(t, c, v) /\ Called(t)
SetVolatile == \E t \in Threads, c \in FreeCells, v \in CallerValues :
    Calls < MaxCalls /\ setVolatile_i128(t, c, v) /\ Called(t)

Next ==
    \/ GetOpaque
    \/ GetAcquire
    \/ GetVolatile
    \/ CompareAndSet
    \/ WeakCompareAndSetRelease
    \/ SetOpaque
    \/ SetRelease
    \/ SetVolatile

Spec == Init /\ [][Next]_vars

(* ---- what the last step did ---- *)
IsLoad == last.op # "none" /\ last.kind = "load"
IsStore == last.op # "none" /\ last.kind = "store"
IsCas == last.op # "none" /\ last.kind = "cas"
FailedCas == IsCas /\ ~last.ok
\* the values written to cell c so far, the initial value included
Written(c) == {mem[c][i].val : i \in 1 .. Latest(c)}
\* the value the last load or CAS read
ValueRead == mem[last.cell][last.read].val

(* C1: every pair returned by a load, or written back into `expected` by a *)
(* failed CAS, is the initial value or the whole value of one write to the *)
(* cell; it never has the low word of one write and the high word of       *)
(* another.                                                                *)
C1_NoTornValue ==
    /\ IsLoad => out[last.thread] \in Written(last.cell)
    /\ FailedCas => expected[last.thread] \in Written(last.cell)

\* a load ran after two writes of different values and returned the older
C1_Witness ==
    /\ IsLoad
    /\ last.prelen >= 3
    /\ mem[last.cell][2].val # mem[last.cell][3].val
    /\ out[last.thread] = mem[last.cell][2].val

(* C2, as claimed: in the order of the calls, every load returns the value *)
(* of the latest preceding write, and every CAS compares with it (a weak   *)
(* CAS may still give up on an equal value).                               *)
C2_Linearizable ==
    /\ IsLoad => out[last.thread] = mem[last.cell][last.prelen].val
    /\ IsCas =>
          /\ last.ok => mem[last.cell][last.prelen].val = last.exp
          /\ ~last.ok /\ last.op = "compareAndSet" =>
                mem[last.cell][last.prelen].val # last.exp

(* C2, amended: per cell the writes form one total modification order;     *)
(* every successful CAS replaces the newest value of that order; every     *)
(* load and failed CAS returns the value of one write of that order, never *)
(* an older one than the calling thread has already read or written, and   *)
(* a getVolatile or compareAndSet never an older one than the newest       *)
(* setVolatile or successful compareAndSet on the cell.                    *)
C2_Coherent ==
    /\ (IsLoad \/ IsCas) =>
          /\ last.read \in last.seen .. last.prelen
          /\ view[last.thread][last.cell] >= last.read
    /\ IsLoad => out[last.thread] = ValueRead
    /\ IsCas =>
          /\ last.ok => ValueRead = last.exp
          /\ ~last.ok /\ last.op = "compareAndSet" => ValueRead # last.exp
          /\ last.ok => /\ last.read = last.prelen
                        /\ Latest(last.cell) = last.prelen + 1
                        /\ CellValue(last.cell) = last.des
    /\ (IsLoad \/ IsCas) /\ last.op \in {"getVolatile", "compareAndSet"} =>
          \A j \in 1 .. last.prelen :
              mem[last.cell][j].order = ATOMIC_SEQ_CST => last.read >= j

\* a getVolatile returned an older value than the newest write, which was
\* not sequentially consistent, but not older than a setVolatile before it
C2_Witness ==
    /\ IsLoad
    /\ last.op = "getVolatile"
    /\ last.read = 2
    /\ last.prelen = 3
    /\ mem[last.cell][2].order = ATOMIC_SEQ_CST

C10_NoInvalidOrdering ==
    /\ IsLoad => last.order \in {ATOMIC_RELAXED, ATOMIC_ACQUIRE, ATOMIC_SEQ_CST}
    /\ IsStore => last.order \in {ATOMIC_RELAXED, ATOMIC_RELEASE, ATOMIC_SEQ_CST}

\* an acquire load followed a release store
C10_Witness ==
    /\ IsLoad
    /\ last.order = ATOMIC_ACQUIRE
    /\ \E i \in 1 .. Latest(last.cell) : mem[last.cell][i].order = ATOMIC_RELEASE

(* ---- one caller: two compareAndSet calls on a cell holding V0 ---- *)
InitCas ==
    \E v0 \in Boundary, v1 \in Boundary, v2 \in Boundary :
        /\ v1 # v0
        /\ InitCells(v0)
        /\ caller = [v0 |-> v0, v1 |-> v1, v2 |-> v2]

CasFirst ==
    /\ pc["t1"] = 0
    /\ compareAndSet_i128("t1", "X", caller.v0, caller.v1)
    /\ Called("t1")
CasSecond ==
    /\ pc["t1"] = 2
    /\ compareAndSet_i128("t1", "X", caller.v0, caller.v2)
    /\ Called("t1")
CasReadOpaque == pc["t1"] \in {1, 3} /\ getOpaque_i128("t1", "X") /\ Called("t1")
CasReadAcquire == pc["t1"] \in {1, 3} /\ getAcquire_i128("t1", "X") /\ Called("t1")
CasReadVolatile == pc["t1"] \in {1, 3} /\ getVolatile_i128("t1", "X") /\ Called("t1")

NextCas ==
    \/ CasFirst
    \/ CasSecond
    \/ CasReadOpaque
    \/ CasReadAcquire
    \/ CasReadVolatile

SpecCas == InitCas /\ [][NextCas]_vars

(* C3: on a cell holding V0, with V1 # V0 and no other writer,             *)
(* compareAndSet(V0, V1) returns true and the cell then reads V1; a        *)
(* following compareAndSet(V0, V2) returns false, writes V1 back into      *)
(* `expected`, and the cell still reads V1.                                *)
C3_CasThenCas ==
    /\ pc["t1"] = 1 => ret["t1"] /\ CellValue("X") = caller.v1
    /\ pc["t1"] = 2 => out["t1"] = caller.v1
    /\ pc["t1"] = 3 => /\ ~ret["t1"]
                       /\ expected["t1"] = caller.v1
                       /\ CellValue("X") = caller.v1
    /\ pc["t1"] = 4 => out["t1"] = caller.v1

\* both calls and both reads were made, with the halves of V1 different
C3_Witness ==
    /\ pc["t1"] = 4
    /\ caller.v1 = LowMax128
    /\ caller.v2 \notin {caller.v0, caller.v1}
    /\ ~ret["t1"]
    /\ out["t1"] = LowMax128

(* ---- one caller: setVolatile, then getVolatile of the same cell ---- *)
InitRoundTrip ==
    \E v0 \in Boundary, v \in atomic128_t, c \in Cells :
        /\ InitCells(v0)
        /\ caller = [value |-> v, cell |-> c]

RoundTripStore ==
    /\ pc["t1"] = 0
    /\ setVolatile_i128("t1", caller.cell, caller.value)
    /\ Called("t1")
RoundTripLoad ==
    /\ pc["t1"] = 1
    /\ getVolatile_i128("t1", caller.cell)
    /\ Called("t1")

NextRoundTrip ==
    \/ RoundTripStore
    \/ RoundTripLoad

SpecRoundTrip == InitRoundTrip /\ [][NextRoundTrip]_vars

(* C6: setVolatile(addr, V) followed by getVolatile(addr) from the same    *)
(* thread, with no other writer, returns V in the low and the high word,   *)
(* for every V, the boundary values included.                              *)
C6_RoundTrip ==
    pc["t1"] = 2 => /\ out["t1"][1] = caller.value[1]
                    /\ out["t1"][2] = caller.value[2]

\* the low half at its maximum and the high half zero came back, on a cell
\* that held another value
C6_Witness ==
    /\ pc["t1"] = 2
    /\ caller.value = LowMax128
    /\ mem[caller.cell][1].val = HighMax128
    /\ out["t1"] = LowMax128

(* ---- two callers: t1 writes the payload Y and releases the flag X;  ---- *)
(* ---- t2 spins on an acquire load of X, then reads Y                 ---- *)
InitHandshake ==
    \E p \in Boundary \ {Zero128}, f \in Boundary \ {Zero128} :
        /\ InitCells(Zero128)
        /\ caller = [payload |-> p, flag |-> f]

HandshakeWritePayload ==
    /\ pc["t1"] = 0
    /\ setOpaque_i128("t1", "Y", caller.payload)
    /\ Called("t1")
HandshakeRelease ==
    /\ pc["t1"] = 1
    /\ setRelease_i128("t1", "X", caller.flag)
    /\ Called("t1")
\* while (getAcquire(X) != flag) ;
HandshakeSpin ==
    /\ pc["t2"] = 0
    /\ getAcquire_i128("t2", "X")
    /\ pc' = [pc EXCEPT !["t2"] = IF out'["t2"] = caller.flag THEN 1 ELSE 0]
    /\ UNCHANGED caller
HandshakeReadOpaque ==
    pc["t2"] \in {1, 2} /\ getOpaque_i128("t2", "Y") /\ Called("t2")
HandshakeReadAcquire ==
    pc["t2"] \in {1, 2} /\ getAcquire_i128("t2", "Y") /\ Called("t2")
HandshakeReadVolatile ==
    pc["t2"] \in {1, 2} /\ getVolatile_i128("t2", "Y") /\ Called("t2")

NextHandshake ==
    \/ HandshakeWritePayload
    \/ HandshakeRelease
    \/ HandshakeSpin
    \/ HandshakeReadOpaque
    \/ HandshakeReadAcquire
    \/ HandshakeReadVolatile

SpecHandshake == InitHandshake /\ [][NextHandshake]_vars

(* C7: once t2's getAcquire of the flag has returned the value t1          *)
(* released, every read of the payload t2 makes returns the payload t1     *)
(* wrote before the release, never the one from before that write.         *)
C7_PayloadVisible ==
    pc["t2"] >= 2 => out["t2"] = caller.payload

\* t2 first read the flag before it was released, then acquired it, and
\* read the payload twice
C7_Witness ==
    /\ pc["t2"] = 3
    /\ view["t2"]["X"] = 2
    /\ out["t2"] = caller.payload
    /\ caller.payload # caller.flag

(* ---- store buffering: each caller writes its cell, then reads the ---- *)
(* ---- other's, with sequentially-consistent calls only             ---- *)
Own(t) == IF t = "t1" THEN "X" ELSE "Y"
Other(t) == IF t = "t1" THEN "Y" ELSE "X"

InitSB ==
    \E vx \in Boundary \ {Zero128}, vy \in Boundary \ {Zero128} :
        /\ InitCells(Zero128)
        /\ caller = [t1 |-> vx, t2 |-> vy]

SBSetVolatile == \E t \in Threads :
    pc[t] = 0 /\ setVolatile_i128(t, Own(t), caller[t]) /\ Called(t)
SBCompareAndSet == \E t \in Threads :
    pc[t] = 0 /\ compareAndSet_i128(t, Own(t), Zero128, caller[t]) /\ Called(t)
SBGetVolatile == \E t \in Threads :
    pc[t] = 1 /\ getVolatile_i128(t, Other(t)) /\ Called(t)

NextSB ==
    \/ SBSetVolatile
    \/ SBCompareAndSet
    \/ SBGetVolatile

SpecSB == InitSB /\ [][NextSB]_vars

(* C8: with X and Y initially 0, t1 writing X then reading Y and t2        *)
(* writing Y then reading X, all with setVolatile or compareAndSet and     *)
(* getVolatile, no execution has both loads return 0.                      *)
C8_NoBothZero ==
    pc["t1"] = 2 /\ pc["t2"] = 2 =>
        ~(out["t1"] = Zero128 /\ out["t2"] = Zero128)

\* both callers finished, t1 read 0 from Y and t2 read t1's value from X
C8_Witness ==
    /\ pc["t1"] = 2
    /\ pc["t2"] = 2
    /\ out["t1"] = Zero128
    /\ out["t2"] = caller["t1"]
    /\ mem["X"][2].order = ATOMIC_SEQ_CST

(* ---- one caller: while (!weakCompareAndSetRelease(X, expected, d)) ; ---- *)
InitWeakLoop ==
    \E v0 \in Boundary, d \in Boundary :
        /\ InitCells(v0)
        /\ caller = [desired |-> d]

\* pc counts the attempts, up to MaxAttempts
WeakLoopAttempt ==
    /\ ~ret["t1"]
    /\ weakCompareAndSetRelease_i128("t1", "X", expected["t1"], caller.desired)
    /\ pc' = [pc EXCEPT !["t1"] = Min(@ + 1, MaxAttempts)]
    /\ UNCHANGED caller

NextWeakLoop == WeakLoopAttempt

\* the caller keeps looping, and the weak form does not give up for ever
\* on a value that matches
SpecWeakLoop ==
    /\ InitWeakLoop
    /\ [][NextWeakLoop]_vars
    /\ WF_vars(WeakLoopAttempt)
    /\ SF_vars(WeakLoopAttempt /\ ret'["t1"])

BackendValues == {Zero128, LowMax128, Ones128}

InitBackends ==
    \E v0 \in BackendValues :
        /\ InitCells(v0)
        /\ caller = NoCall

NativeCompareAndSet ==
    \E t \in Threads, c \in FreeCells, e \in BackendValues, d \in BackendValues :
        /\ Calls < MaxCalls
        /\ compareAndSet_i128_WIN32(t, c, e, d)
        /\ pc' = [pc EXCEPT ![t] = @ + 1]
        /\ caller' = [backend |-> "native"]
LibraryCompareAndSet ==
    \E t \in Threads, c \in FreeCells, e \in BackendValues, d \in BackendValues :
        /\ Calls < MaxCalls
        /\ compareAndSet_i128(t, c, e, d)
        /\ pc' = [pc EXCEPT ![t] = @ + 1]
        /\ caller' = [backend |-> "library"]

NextBackends ==
    \/ NativeCompareAndSet
    \/ LibraryCompareAndSet

SpecBackends == InitBackends /\ [][NextBackends]_vars

C12_WeakNeverSpuriousSuccess ==
    [][IsCas' /\ last'.op = "weakCompareAndSetRelease" =>
          /\ last'.ok => /\ CellValue(last'.cell) = last'.exp
                          /\ Len(mem'[last'.cell]) = Latest(last'.cell) + 1
                          /\ mem'[last'.cell][Len(mem'[last'.cell])].val = last'.des
                          /\ ret'[last'.thread]
          /\ ~last'.ok => /\ mem' = mem
                           /\ ~ret'[last'.thread]]_vars

\* weakCompareAndSetRelease returned false on the newest value of the
\* cell although it matched `expected`, after another call had written it
C12_Witness ==
    /\ FailedCas
    /\ last.op = "weakCompareAndSetRelease"
    /\ last.read = last.prelen
    /\ last.prelen >= 2
    /\ ValueRead = last.exp
    /\ last.exp # last.des

(* ---- two callers race: each makes one CAS with the same `expected` ---- *)
InitRace ==
    \E e \in Boundary, d1 \in Boundary, d2 \in Boundary :
        /\ d1 # e
        /\ d2 # e
        /\ InitCells(e)
        /\ caller = [expected |-> e, t1 |-> d1, t2 |-> d2]

RaceCompareAndSet == \E t \in Threads :
    /\ pc[t] = 0
    /\ compareAndSet_i128(t, "X", caller.expected, caller[t])
    /\ Called(t)
RaceWeakCompareAndSetRelease == \E t \in Threads :
    /\ pc[t] = 0
    /\ weakCompareAndSetRelease_i128(t, "X", caller.expected, caller[t])
    /\ Called(t)

NextRace ==
    \/ RaceCompareAndSet
    \/ RaceWeakCompareAndSetRelease

SpecRace == InitRace /\ [][NextRace]_vars

\* the calls that returned true
Winners == {t \in Threads : pc[t] = 1 /\ ret[t]}

(* C13, as claimed: at most one of the racing calls returns true, and     *)
(* every call that returns false leaves in `expected` a value different   *)
(* from E.                                                                *)
C13_OneWinnerOthersSeeChange ==
    /\ Cardinality(Winners) <= 1
    /\ FailedCas => expected[last.thread] # caller.expected

(* C13, amended: at most one of the racing calls returns true, and every  *)
(* compareAndSet that returns false leaves in `expected` a value          *)
(* different from E; a weakCompareAndSetRelease that returns false leaves *)
(* the value it read, which is E when it gave up on a matching value.     *)
C13_OneWinner ==
    /\ Cardinality(Winners) <= 1
    /\ FailedCas /\ last.op = "compareAndSet" =>
          expected[last.thread] # caller.expected
    /\ FailedCas => expected[last.thread] = ValueRead

\* one call won and the other, a compareAndSet, lost and got the
\* winner's value
C13_Witness ==
    /\ Cardinality(Winners) = 1
    /\ FailedCas
    /\ last.op = "compareAndSet"
    /\ \E w \in Winners : expected[last.thread] = caller[w]

(* ---- free-running callers of two cells ---- *)
InitFrame == InitCells(Zero128) /\ caller = NoCall

FrameGetOpaque == \E t \in Threads, c \in Cells :
    Calls < MaxFrameCalls /\ getOpaque_i128(t, c) /\ Called(t)
FrameGetAcquire == \E t \in Threads, c \in Cells :
    Calls < MaxFrameCalls /\ getAcquire_i128(t, c) /\ Called(t)
FrameGetVolatile == \E t \in Threads, c \in Cells :
    Calls < MaxFrameCalls /\ getVolatile_i128(t, c) /\ Called(t)
FrameCompareAndSet ==
    \E t \in Threads, c \in Cells, e \in CallerValues, d \in CallerValues :
        Calls < MaxFrameCalls /\ compareAndSet_i128(t, c, e, d) /\ Called(t)
FrameWeakCompareAndSetRelease ==
    \E t \in Threads, c \in Cells, e \in CallerValues, d \in CallerValues :
        Calls < MaxFrameCalls /\ weakCompareAndSetRelease_i128(t, c, e, d) /\ Called(t)
FrameSetOpaque == \E t \in Threads, c \in Cells, v \in CallerValues :
    Calls < MaxFrameCalls /\ setOpaque_i128(t, c, v) /\ Called(t)
FrameSetRelease == \E t \in Threads, c \in Cells, v \in CallerValues :
    Calls < MaxFrameCalls /\ setRelease_i128(t, c, v) /\ Called(t)
FrameSetVolatile == \E t \in Threads, c \in Cells, v \in CallerValues :
    Calls < MaxFrameCalls /\ setVolatile_i128(t, c, v) /\ Called(t)

NextFrame ==
    \/ FrameGetOpaque
    \/ FrameGetAcquire
    \/ FrameGetVolatile
    \/ FrameCompareAndSet
    \/ FrameWeakCompareAndSetRelease
    \/ FrameSetOpaque
    \/ FrameSetRelease
    \/ FrameSetVolatile

SpecFrame == InitFrame /\ [][NextFrame]_vars

(* C14: a call touches only the cell at its address: a load leaves every  *)
(* cell as it was and returns a value of its own cell; any call on a cell *)
(* leaves every other cell, and the buffers of the other callers, as they *)
(* were.                                                                  *)
C14_Frame ==
    [][/\ last'.op # "none"
       /\ \A b \in Cells \ {last'.cell} : mem'[b] = mem[b]
       /\ \A u \in Threads \ {last'.thread} :
             /\ out'[u] = out[u]
             /\ expected'[u] = expected[u]
             /\ ret'[u] = ret[u]
       /\ last'.kind = "load" =>
             /\ mem' = mem
             /\ out'[last'.thread] = mem[last'.cell][last'.read].val
       /\ Len(mem'[last'.cell]) \in {Latest(last'.cell), Latest(last'.cell) + 1}]_vars

\* a load of Y returned Y's value while X held another value, written by
\* the call before
C14_Witness ==
    /\ IsLoad
    /\ last.cell = "Y"
    /\ CellValue("X") = Ones128
    /\ CellValue("Y") = Zero128
    /\ out[last.thread] = Zero128

(* ---- one pending call of t1 under contention: t2 keeps calling ---- *)
Loads == {"getOpaque", "getAcquire", "getVolatile"}
Stores == {"setOpaque", "setRelease", "setVolatile"}
Exchanges == {"compareAndSet", "weakCompareAndSetRelease"}

\* a call: the function, and its arguments (a store's value is d)
PendingCalls ==
    {[op |-> o, e |-> Zero128, d |-> Zero128] : o \in Loads}
    \cup {[op |-> o, e |-> Zero128, d |-> v] : o \in Stores, v \in CallerValues}
    \cup {[op |-> o, e |-> x, d |-> y] :
             o \in Exchanges, x \in CallerValues, y \in CallerValues}

\* t1 makes its one call; t2 repeats its call
CallLimit(t) == IF t = "t1" THEN 1 ELSE MaxContention

InitPending ==
    \E c1 \in PendingCalls, c2 \in PendingCalls :
        /\ InitCells(Zero128)
        /\ caller = [t1 |-> c1, t2 |-> c2]

Pending(t, fn) == pc[t] < CallLimit(t) /\ caller[t].op = fn

PendingGetOpaque(t) ==
    Pending(t, "getOpaque") /\ getOpaque_i128(t, "X") /\ Called(t)
PendingGetAcquire(t) ==
    Pending(t, "getAcquire") /\ getAcquire_i128(t, "X") /\ Called(t)
PendingGetVolatile(t) ==
    Pending(t, "getVolatile") /\ getVolatile_i128(t, "X") /\ Called(t)
PendingCompareAndSet(t) ==
    /\ Pending(t, "compareAndSet")
    /\ compareAndSet_i128(t, "X", caller[t].e, caller[t].d)
    /\ Called(t)
PendingWeakCompareAndSetRelease(t) ==
    /\ Pending(t, "weakCompareAndSetRelease")
    /\ weakCompareAndSetRelease_i128(t, "X", caller[t].e, caller[t].d)
    /\ Called(t)
PendingSetOpaque(t) ==
    Pending(t, "setOpaque") /\ setOpaque_i128(t, "X", caller[t].d) /\ Called(t)
PendingSetRelease(t) ==
    Pending(t, "setRelease") /\ setRelease_i128(t, "X", caller[t].d) /\ Called(t)
PendingSetVolatile(t) ==
    Pending(t, "setVolatile") /\ setVolatile_i128(t, "X", caller[t].d) /\ Called(t)

\* thread t runs until its call returns
PendingStep(t) ==
    \/ PendingGetOpaque(t)
    \/ PendingGetAcquire(t)
    \/ PendingGetVolatile(t)
    \/ PendingCompareAndSet(t)
    \/ PendingWeakCompareAndSetRelease(t)
    \/ PendingSetOpaque(t)
    \/ PendingSetRelease(t)
    \/ PendingSetVolatile(t)

NextPending == \E t \in Threads : PendingStep(t)

\* each thread is scheduled; nothing is assumed about the other thread
SpecPending ==
    /\ InitPending
    /\ [][NextPending]_vars
    /\ \A t \in Threads : WF_vars(PendingStep(t))

\* one step is one whole call: it reads one value of the cell, writes at most
\* one, and a CAS that reads a value other than `expected` writes nothing
OneAccess ==
    /\ last'.op = caller[last'.thread].op
    /\ pc'[last'.thread] = pc[last'.thread] + 1
    /\ Len(mem'["X"]) \in {Latest("X"), Latest("X") + 1}
    /\ (last'.kind = "load") => (mem' = mem)
    /\ (last'.kind = "store") => (Len(mem'["X"]) = Latest("X") + 1)
    /\ (last'.kind = "cas") =>
          /\ (mem["X"][last'.read].val # last'.exp) =>
                (~ret'[last'.thread] /\ mem' = mem)
          /\ ret'[last'.thread] <=> (Len(mem'["X"]) = Latest("X") + 1)

(* C15: every call makes one atomic access to the cell and returns: t1's  *)
(* call returns whatever t2 does to the cell meanwhile, each step is one  *)
(* whole call that reads one value and writes at most one, and a CAS that *)
(* reads a value different from `expected` returns false without writing. *)
C15_OneAccessThenReturn ==
    /\ <>(pc["t1"] = 1)
    /\ [][OneAccess]_vars

\* t1's compareAndSet returned false after t2 had changed the cell twice
C15_Witness ==
    /\ pc["t1"] = 1
    /\ pc["t2"] = 2
    /\ FailedCas
    /\ last.thread = "t1"
    /\ last.op = "compareAndSet"
    /\ last.prelen = 3
    /\ expected["t1"] # caller["t1"].e

(* ---- a shared counter: each thread increments the cell K times ---- *)
\* the caller's 128-bit arithmetic on the two words, low word first
Modulus == 2 ^ (2 * WordBits)
ToNat(v) == v[1] + v[2] * 2 ^ WordBits
FromNat(n) == <<n % 2 ^ WordBits, (n \div 2 ^ WordBits) % 2 ^ WordBits>>
Plus(v, n) == FromNat((ToNat(v) + n) % Modulus)
\* observed + 1: the carry out of the low word goes into the high word
Add1(v) ==
    IF v[1] = WordMax
    THEN <<0, (v[2] + 1) % 2 ^ WordBits>>
    ELSE <<v[1] + 1, v[2]>>

InitCounter ==
    \E v0 \in Boundary :
        /\ InitCells(v0)
        /\ caller = [init |-> v0, retried |-> FALSE]

\* pc[t] = 3 * (increments done) + position in the loop:
\* 0 before the load, 1 before the first compareAndSet, 2 retrying
Done(t) == pc[t] \div 3
AllDone == \A t \in Threads : pc[t] = 3 * MaxIncrements

CounterLoad(t) ==
    /\ pc[t] < 3 * MaxIncrements
    /\ pc[t] % 3 = 0
    /\ \/ getOpaque_i128(t, "X")
       \/ getAcquire_i128(t, "X")
       \/ getVolatile_i128(t, "X")
    /\ pc' = [pc EXCEPT ![t] = @ + 1]
    /\ UNCHANGED caller

\* compareAndSet(addr, observed, observed + 1) with the value loaded
CounterCompareAndSet(t) ==
    /\ pc[t] % 3 = 1
    /\ compareAndSet_i128(t, "X", out[t], Add1(out[t]))
    /\ pc' = [pc EXCEPT ![t] = IF ret'[t] THEN 3 * (Done(t) + 1) ELSE @ + 1]
    /\ caller' = [caller EXCEPT !.retried = @ \/ ~ret'[t]]

\* the retry, with the value the failed call wrote back into `expected`
CounterRetry(t) ==
    /\ pc[t] % 3 = 2
    /\ compareAndSet_i128(t, "X", expected[t], Add1(expected[t]))
    /\ pc' = [pc EXCEPT ![t] = IF ret'[t] THEN 3 * (Done(t) + 1) ELSE @]
    /\ UNCHANGED caller

CounterStep(t) ==
    \/ CounterLoad(t)
    \/ CounterCompareAndSet(t)
    \/ CounterRetry(t)

NextCounter == \E t \in Threads : CounterStep(t)

SpecCounter ==
    /\ InitCounter
    /\ [][NextCounter]_vars
    /\ \A t \in Threads : WF_vars(CounterStep(t))

(* C16: no lost updates. Under weak fairness every increment loop of     *)
(* every thread terminates, and from then on the cell holds the initial   *)
(* value plus N*K modulo 2^(2*WordBits), the carry out of the low word    *)
(* included.                                                              *)
C16_NoLostUpdates ==
    <>[](/\ AllDone
         /\ CellValue("X") =
               Plus(caller.init, Cardinality(Threads) * MaxIncrements))

\* all increments done after a failed compareAndSet was retried, starting
\* from a full low word: the carry reached the high word
C16_Witness ==
    /\ AllDone
    /\ caller.retried
    /\ caller.init = LowMax128
    /\ CellValue("X")[2] = 1
    /\ CellValue("X")[1] = Cardinality(Threads) * MaxIncrements - 1

(* ---- native backend: the caller builds load and store from compareAndSet ---- *)
\* what a caller does: a load with guess g, or a store of v starting from guess g
SynthCalls ==
    {[op |-> "load", g |-> x, v |-> x] : x \in BackendValues}
    \cup {[op |-> "store", g |-> x, v |-> y] :
             x \in BackendValues, y \in BackendValues}

InitSynth ==
    \E v0 \in BackendValues, c1 \in SynthCalls, c2 \in SynthCalls :
        /\ InitCells(v0)
        /\ caller = [t1 |-> c1, t2 |-> c2]

\* load: compareAndSet(addr, expected = G, desired = G), once
SynthLoad(t) ==
    /\ caller[t].op = "load"
    /\ pc[t] = 0
    /\ compareAndSet_i128_WIN32(t, "X", caller[t].g, caller[t].g)
    /\ pc' = [pc EXCEPT ![t] = 2]
    /\ UNCHANGED caller

\* store: expected = G; while (!compareAndSet(addr, expected, V)) ;
SynthStoreFirst(t) ==
    /\ caller[t].op = "store"
    /\ pc[t] = 0
    /\ compareAndSet_i128_WIN32(t, "X", caller[t].g, caller[t].v)
    /\ pc' = [pc EXCEPT ![t] = IF ret'[t] THEN 2 ELSE 1]
    /\ UNCHANGED caller

SynthStoreRetry(t) ==
    /\ caller[t].op = "store"
    /\ pc[t] = 1
    /\ compareAndSet_i128_WIN32(t, "X", expected[t], caller[t].v)
    /\ pc' = [pc EXCEPT ![t] = IF ret'[t] THEN 2 ELSE 1]
    /\ UNCHANGED caller

SynthStep(t) ==
    \/ SynthLoad(t)
    \/ SynthStoreFirst(t)
    \/ SynthStoreRetry(t)

NextSynth == \E t \in Threads : SynthStep(t)

SpecSynth ==
    /\ InitSynth
    /\ [][NextSynth]_vars
    /\ \A t \in Threads : WF_vars(SynthStep(t))

\* one call of a synthesized load or store: `expected` ends up holding the
\* value the cell had; the load leaves that value in the cell; the store
\* writes V when the call returns true and nothing when it returns false
SynthCall ==
    LET t == last'.thread
        after == mem'["X"][Len(mem'["X"])].val
    IN  /\ expected'[t] = CellValue("X")
        /\ (caller[t].op = "load") => (after = CellValue("X"))
        /\ (caller[t].op = "store") =>
              IF ret'[t]
              THEN after = caller[t].v /\ pc'[t] = 2
              ELSE mem' = mem /\ pc'[t] = 1

(* C17: on the native backend compareAndSet(addr, G, G) leaves the cell's *)
(* value as it was, whether it returns true or false, and leaves that     *)
(* value in `expected`; the store loop leaves in `expected` the value     *)
(* each attempt found and, under fairness, ends, the cell having held V.  *)
C17_SynthesizedLoadStore ==
    /\ [][SynthCall]_vars
    /\ <>[](\A t \in Threads :
              /\ pc[t] = 2
              /\ (caller[t].op = "store") => (caller[t].v \in Written("X")))

\* t2's load guessed wrong and got the value; t1's store went through on a
\* retry with the written-back value, words in the right places
C17_Witness ==
    /\ pc["t1"] = 2
    /\ pc["t2"] = 2
    /\ caller["t1"].op = "store"
    /\ caller["t2"].op = "load"
    /\ ~ret["t2"]
    /\ expected["t2"] # caller["t2"].g
    /\ last.thread = "t1"
    /\ last.ok
    /\ last.exp # caller["t1"].g
    /\ caller["t1"].v = LowMax128
    /\ CellValue("X") = LowMax128

(* C18: the memory order of every call is the one of its function:        *)
(* getOpaque and setOpaque relaxed, getAcquire acquire, setRelease release, *)
(* getVolatile and setVolatile sequentially consistent; compareAndSet is    *)
(* strong (it never fails on a value equal to `expected`) and sequentially  *)
(* consistent on success and on failure; weakCompareAndSetRelease is a CAS  *)
(* with release on success and relaxed on failure. A value written carries  *)
(* the order of the call that wrote it.                                     *)
C18_OrderingMapping ==
    /\ last.op \in Loads \cup Stores \cup Exchanges \cup {"none"}
    /\ (last.op \in Loads) <=> IsLoad
    /\ (last.op \in Stores) <=> IsStore
    /\ (last.op \in Exchanges) <=> IsCas
    /\ (last.op \in {"getOpaque", "setOpaque"}) => (last.order = ATOMIC_RELAXED)
    /\ (last.op = "getAcquire") => (last.order = ATOMIC_ACQUIRE)
    /\ (last.op = "setRelease") => (last.order = ATOMIC_RELEASE)
    /\ (last.op \in {"getVolatile", "setVolatile"}) => (last.order = ATOMIC_SEQ_CST)
    /\ (last.op = "compareAndSet") =>
          /\ last.order = ATOMIC_SEQ_CST
          /\ last.failure = ATOMIC_SEQ_CST
          /\ (ValueRead = last.exp) => last.ok
    /\ (last.op = "weakCompareAndSetRelease") =>
          /\ last.order = ATOMIC_RELEASE
          /\ last.failure = ATOMIC_RELAXED
    /\ (IsStore \/ (IsCas /\ last.ok)) =>
          (mem[last.cell][Latest(last.cell)].order = last.order)

\* weakCompareAndSetRelease exchanged, with release, a value that setVolatile
\* had written with the sequentially consistent order
C18_Witness ==
    /\ last.op = "weakCompareAndSetRelease"
    /\ last.ok
    /\ last.order = ATOMIC_RELEASE
    /\ last.failure = ATOMIC_RELAXED
    /\ last.prelen >= 2
    /\ mem[last.cell][last.prelen].order = ATOMIC_SEQ_CST
    /\ mem[last.cell][Latest(last.cell)].order = ATOMIC_RELEASE

====
